---------------------------- MODULE Spec2Model ----------------------------
(***************************************************************************)
(* Model of AnchorTarget._anchor_target_layer_np (src/frcnn/anchor.py).    *)
(*                                                                         *)
(* Arrays are functions over 0..n-1, so that the flat-index arithmetic of  *)
(* the source (reshape, transpose, fancy indexing) reads as in the code.   *)
(* A box is <<x1, y1, x2, y2>>, a ground-truth row <<x1, y1, x2, y2, c>>.  *)
(* An overlap is an exact fraction <<n, d>> with d > 0, compared by        *)
(* cross-multiplication.  Targets and weights are records: a reduced       *)
(* fraction or the logarithm of one.                                       *)
(*                                                                         *)
(* Spec is the call.  It builds the anchor grid (lines 97-124) and then    *)
(* evaluates the inside-image mask (lines 127-132), which reads im_info:   *)
(* no parameter, no local and no global of the module.  Every call raises  *)
(* NameError at line 130, and lines 135-231 are never executed by a call.  *)
(*                                                                         *)
(* The statements after line 132 are modelled as code all the same, each   *)
(* block from the values that are bound where it starts:                   *)
(*   SpecBody    lines 135-203, from a grid and an index array inds_inside *)
(*               (the one line 127 gives for an image of some size); it    *)
(*               ends at line 203, where the bare name _unmap is read      *)
(*               (bound only as the method AnchorTarget._unmap): NameError *)
(*   SpecLayout  lines 212-231, from four full-grid arrays                 *)
(*   SpecShared  lines 166-180 run by two threads that draw from           *)
(*               np.random, the generator of the numpy module              *)
(***************************************************************************)
EXTENDS Integers, Sequences, FiniteSets, TLC

VARIABLES
    \* the call's inputs
    height, width,          \* rpn_cls_score.shape[1:3]
    gt_boxes,               \* array of ground-truth rows
    anchors0,               \* self.anchors, the (A,4) template array
    \* the position in the function, the exception raised, and its locals
    pc, err,
    all_anchors, inds_inside, overlaps, argmax_overlaps, max_overlaps,
    gt_argmax_overlaps, labels, fg_inds, bg_inds,
    bbox_targets, bbox_inside_weights, bbox_outside_weights,
    out,                    \* the four returned tensors
    \* np.random's generator and the threads that draw from it
    rng_pos,                \* the draws made since the generator was seeded
    rng_stream,             \* the draws the seed gives, as far as known
    tpc, tlabels            \* per thread: position, labels

vars == << height, width, gt_boxes, anchors0, pc, err, all_anchors,
           inds_inside, overlaps, argmax_overlaps, max_overlaps,
           gt_argmax_overlaps, labels, fg_inds, bg_inds, bbox_targets,
           bbox_inside_weights, bbox_outside_weights, out,
           rng_pos, rng_stream, tpc, tlabels >>

inputs == << height, width, gt_boxes, anchors0 >>

locals == << inds_inside, overlaps, argmax_overlaps, max_overlaps,
             gt_argmax_overlaps, labels, fg_inds, bg_inds, bbox_targets,
             bbox_inside_weights, bbox_outside_weights, out >>

threads == << rng_pos, rng_stream, tpc, tlabels >>

----------------------------------------------------------------------------
\* Bounds of the model.
MaxH == 2
MaxW == 2
MaxGt == 2
\* The anchors a sampler input holds beyond the quota.
MaxExcess == 1

\* Fields set by __init__.
FeatStride == 16
AllowedBorder == 0
ClobberPositives == FALSE
PositiveOverlap == << 7, 10 >>
NegativeOverlap == << 3, 10 >>
ForegroundFraction == << 1, 2 >>
BatchSize == 256
BboxInsideWeights == << 1, 1, 1, 1 >>

----------------------------------------------------------------------------
\* Arrays.
Len0(a) == Cardinality(DOMAIN a)

Arr(s) == [i \in 0..(Len(s) - 1) |-> s[i + 1]]

\* A local that no statement has assigned.
Unassigned == Arr(<< >>)

\* np.where(mask)[0] for a one-dimensional mask of length n, given as the
\* set of the indices where it is true: those indices, ascending.
Where(mask, n) ==
    LET member(x) == x \in mask
    IN  Arr(SelectSeq([k \in 1..n |-> k - 1], member))

\* Fractions.
FracLt(p, q) == p[1] * q[2] < q[1] * p[2]
FracGe(p, q) == ~FracLt(p, q)
FracEq(p, q) == p[1] * q[2] = q[1] * p[2]

----------------------------------------------------------------------------
\* Lines 100-103: np.arange(...) * feat_stride and np.meshgrid.
ShiftX(H, W) == [row \in 0..(H - 1) |-> [col \in 0..(W - 1) |-> col * FeatStride]]
ShiftY(H, W) == [row \in 0..(H - 1) |-> [col \in 0..(W - 1) |-> row * FeatStride]]

\* ndarray.ravel() of an (H, W) array: row-major.
Ravel(m, H, W) == [k \in 0..(H * W - 1) |-> m[k \div W][k % W]]

\* Lines 106-109.
Shifts(H, W) ==
    LET sx == Ravel(ShiftX(H, W), H, W)
        sy == Ravel(ShiftY(H, W), H, W)
    IN  [k \in 0..(H * W - 1) |-> << sx[k], sy[k], sx[k], sy[k] >>]

\* Lines 115-122: the shifted anchors, cell-major and template-minor.
AllAnchors(templ, H, W) ==
    LET A == Len0(templ)
        K == H * W
        sh == Shifts(H, W)
        \* (1,A,4) + (K,1,4) broadcast to (K,A,4)
        grid == [k \in 0..(K - 1) |-> [a \in 0..(A - 1) |->
                    [c \in 1..4 |-> templ[a][c] + sh[k][c]]]]
    IN  [i \in 0..(K * A - 1) |-> grid[i \div A][i % A]]

\* Lines 128-131, with the image size the mask compares against as the
\* parameter info = <<image height, image width>>.
IsInside(b, info) ==
    /\ b[1] >= -AllowedBorder
    /\ b[2] >= -AllowedBorder
    /\ b[3] < info[2] + AllowedBorder
    /\ b[4] < info[1] + AllowedBorder

\* Lines 127-132 for an image of size info.
InsideInds(all, info) ==
    Where({ i \in DOMAIN all : IsInside(all[i], info) }, Len0(all))

\* Line 135: all_anchors[inds_inside, :]
Gather(all, inds) == [i \in DOMAIN inds |-> all[inds[i]]]

----------------------------------------------------------------------------
\* utils.cython_bbox.bbox_overlaps: intersection over union of two boxes in
\* inclusive pixel coordinates, an exact fraction <<intersection, union>>.
BoxArea(b) == (b[3] - b[1] + 1) * (b[4] - b[2] + 1)

Min2(x, y) == IF x <= y THEN x ELSE y
Max2(x, y) == IF x >= y THEN x ELSE y

IoU(b, g) ==
    LET iw == Min2(b[3], g[3]) - Max2(b[1], g[1]) + 1
        ih == Min2(b[4], g[4]) - Max2(b[2], g[2]) + 1
    IN  IF iw > 0 /\ ih > 0
        THEN << iw * ih, BoxArea(b) + BoxArea(g) - iw * ih >>
        ELSE << 0, 1 >>

\* Lines 142-144 and 244-245: the (N, M) overlap matrix.
BboxOverlaps(boxes, gts) ==
    [i \in DOMAIN boxes |-> [j \in DOMAIN gts |-> IoU(boxes[i], gts[j])]]

\* ndarray.argmax over a non-empty array of fractions: the first index of
\* the maximum.
ArgMax(v) ==
    CHOOSE i \in DOMAIN v :
        /\ \A k \in DOMAIN v : FracGe(v[i], v[k])
        /\ \A k \in DOMAIN v : k < i => FracLt(v[k], v[i])

\* Line 145: overlaps.argmax(axis=1), for M > 0.
ArgMaxAxis1(ov) == [i \in DOMAIN ov |-> ArgMax(ov[i])]

\* Line 147: overlaps.argmax(axis=0), for N > 0.
ArgMaxAxis0(ov, M) ==
    [j \in 0..(M - 1) |-> ArgMax([i \in DOMAIN ov |-> ov[i][j]])]

\* Lines 148-149: the maximum of every column.
GtMaxOverlaps(ov, M) ==
    LET am == ArgMaxAxis0(ov, M) IN [j \in 0..(M - 1) |-> ov[am[j]][j]]

\* A variant of line 150 that keeps one anchor per ground truth: the argmax.
GtArgmaxFirst(ov, M) == ArgMaxAxis0(ov, M)

\* Line 150: np.where(overlaps == gt_max_overlaps)[0], the row of every
\* entry equal to the maximum of its column, in row-major order.
GtArgmaxOverlaps(ov, M) ==
    LET N == Len0(ov)
        gmax == GtMaxOverlaps(ov, M)
        cells == [k \in 1..(N * M) |-> k - 1]
        hit(k) == FracEq(ov[k \div M][k % M], gmax[k % M])
        hits == SelectSeq(cells, hit)
    IN  Arr([k \in 1..Len(hits) |-> hits[k] \div M])

----------------------------------------------------------------------------
\* Lines 137-138, 152-164: the label passes over a mutable buffer.
FillLabels(n) == [i \in 0..(n - 1) |-> -1]

\* labels[mask] = v
SetMask(lab, mask, v) == [i \in DOMAIN lab |-> IF i \in mask THEN v ELSE lab[i]]

\* labels[index_array] = v
SetIndex(lab, idx, v) ==
    LET hit == { idx[k] : k \in DOMAIN idx }
    IN  [i \in DOMAIN lab |-> IF i \in hit THEN v ELSE lab[i]]

PassBackground(lab, maxov) ==
    SetMask(lab, { i \in DOMAIN lab : FracLt(maxov[i], NegativeOverlap) }, 0)

PassGtBest(lab, gtbest) == SetIndex(lab, gtbest, 1)

PassPositive(lab, maxov) ==
    SetMask(lab, { i \in DOMAIN lab : FracGe(maxov[i], PositiveOverlap) }, 1)

\* A variant of lines 152-164 that runs the background pass last in both modes.
AssignLabelsBgLast(lab, maxov, gtbest, clobber) ==
    PassBackground(PassPositive(PassGtBest(lab, gtbest), maxov), maxov)

\* Lines 152-164 on the buffer lab that lines 137-138 filled; clobber is
\* self._clobber_positives.
AssignLabels(lab, maxov, gtbest, clobber) ==
    LET l0 == lab
        l1 == IF ~clobber THEN PassBackground(l0, maxov) ELSE l0
        l2 == PassGtBest(l1, gtbest)
        l3 == PassPositive(l2, maxov)
        l4 == IF clobber THEN PassBackground(l3, maxov) ELSE l3
    IN  l4

----------------------------------------------------------------------------
\* Lines 166-180: the balanced sampler.

\* Line 167: int(foreground_fraction * batch_size)
NumFg == (ForegroundFraction[1] * BatchSize) \div ForegroundFraction[2]

\* np.where(labels == v)[0]
IndsWhere(lab, v) == Where({ i \in DOMAIN lab : lab[i] = v }, Len0(lab))

\* np.sum(labels == v)
Count(lab, v) == Cardinality({ i \in DOMAIN lab : lab[i] = v })

\* A variant of line 175 that uses the count of positives before subsampling.
NumBgPre(lab) == BatchSize - Len0(fg_inds)

\* Line 175.
NumBg(lab) == BatchSize - Count(lab, 1)

ArrSet(a) == { a[i] : i \in DOMAIN a }

\* The subsets of S that have k elements.
RECURSIVE KSubsets(_, _)
KSubsets(S, k) ==
    IF k = 0 THEN { {} }
    ELSE UNION { { D \cup { x } : x \in S \ D } : D \in KSubsets(S, k - 1) }

\* np.random.choice(inds, size=k, replace=False) with the generator in an
\* unknown state: any k of the indices.
Choices(inds, k) == KSubsets(ArrSet(inds), k)

\* labels[disable_inds] = -1
Disable(lab, D) == SetMask(lab, D, -1)

----------------------------------------------------------------------------
\* The numbers of the regression targets and of the weights: a reduced
\* fraction n/d, or the logarithm of a reduced fraction n/d other than 1.
RECURSIVE Gcd(_, _)
Gcd(a, b) == IF b = 0 THEN a ELSE Gcd(b, a % b)

Abs(x) == IF x < 0 THEN -x ELSE x

Rat(n, d) ==
    LET g == Gcd(Abs(n), d) IN [k |-> "rat", n |-> n \div g, d |-> d \div g]

Log(n, d) ==
    LET g == Gcd(n, d)
    IN  IF n = d THEN Rat(0, 1) ELSE [k |-> "log", n |-> n \div g, d |-> d \div g]

Zero == Rat(0, 1)

Row4(v) == [c \in 1..4 |-> v]

\* utils.bbox_transform.bbox_transform: the box-delta encoding of a
\* ground-truth box relative to an anchor, in inclusive pixel coordinates.
BboxTransform(ex, gt) ==
    LET ew == ex[3] - ex[1] + 1
        eh == ex[4] - ex[2] + 1
        gw == gt[3] - gt[1] + 1
        gh == gt[4] - gt[2] + 1
    IN  << Rat((2 * gt[1] + gw) - (2 * ex[1] + ew), 2 * ew),
           Rat((2 * gt[2] + gh) - (2 * ex[2] + eh), 2 * eh),
           Log(gw, ew),
           Log(gh, eh) >>

\* groundtruth_boxes[:, :4]
Box4(g) == << g[1], g[2], g[3], g[4] >>

\* Lines 247-256.
ComputeTargets(boxes, gtrows) ==
    [i \in DOMAIN boxes |-> BboxTransform(boxes[i], Box4(gtrows[i]))]

\* A variant of line 183 that encodes every anchor against the first ground truth.
TargetsFirstGt(boxes, gts, argmax) ==
    ComputeTargets(boxes, [i \in DOMAIN boxes |-> gts[0]])

\* Line 183: the targets of every inside anchor against the ground truth
\* of its argmax.
Targets(boxes, gts, argmax) ==
    ComputeTargets(boxes, [i \in DOMAIN boxes |-> gts[argmax[i]]])

\* Lines 185-186.
InsideWeights(lab) ==
    [i \in DOMAIN lab |->
        IF lab[i] = 1 THEN [c \in 1..4 |-> Rat(BboxInsideWeights[c], 1)]
        ELSE Row4(Zero)]

\* A variant of line 191 that counts the labelled anchors before subsampling.
NumExamplesPre(lab) == Len0(fg_inds) + Len0(bg_inds) + 1

\* Line 191.
NumExamples(lab) == Cardinality({ i \in DOMAIN lab : lab[i] >= 0 }) + 1

\* Lines 188-201.
OutsideWeights(lab) ==
    LET w == Row4(Rat(1, NumExamples(lab)))
    IN  [i \in DOMAIN lab |->
            IF lab[i] = 1 \/ lab[i] = 0 THEN w ELSE Row4(Zero)]

----------------------------------------------------------------------------
\* Tensors: a shape and the elements in C order.
Size(shape) == shape[1] * shape[2] * shape[3] * shape[4]

Flat(idx, shape) ==
    ((idx[1] * shape[2] + idx[2]) * shape[3] + idx[3]) * shape[4] + idx[4]

Unflat(f, shape) ==
    << f \div (shape[2] * shape[3] * shape[4]),
       (f \div (shape[3] * shape[4])) % shape[2],
       (f \div shape[4]) % shape[3],
       f % shape[4] >>

Reshape(data, shape) == [shape |-> shape, data |-> data]

\* ndarray.transpose(perm): axis m of the result is axis perm[m] of t.
Transpose(t, perm) ==
    LET ns == [m \in 1..4 |-> t.shape[perm[m] + 1]]
        old(idx) == [a \in 1..4 |-> idx[CHOOSE m \in 1..4 : perm[m] + 1 = a]]
    IN  [shape |-> ns,
         data  |-> [f \in 0..(Size(ns) - 1) |->
                        t.data[Flat(old(Unflat(f, ns)), t.shape)]]]

\* An (n, 4) array in C order.
Flat2(rows) == [f \in 0..(4 * Len0(rows) - 1) |-> rows[f \div 4][(f % 4) + 1]]

\* A variant of the transposition that exchanges the two spatial axes.
LabelPermSwapped == << 0, 3, 2, 1 >>

\* Lines 213, 219, 224, 229: transpose(0, 3, 1, 2)
LabelPerm == << 0, 3, 1, 2 >>

\* Lines 213-214.
LayoutLabels(full, H, W, A) ==
    LET t == Transpose(Reshape(full, << 1, H, W, A >>), LabelPerm)
    IN  Reshape(t.data, << 1, 1, A * H, W >>)

\* Lines 217-229.
LayoutBoxes(full, H, W, A) ==
    Transpose(Reshape(Flat2(full), << 1, H, W, A * 4 >>), LabelPerm)

----------------------------------------------------------------------------
\* The inputs the model draws from.
B16 == << 0, 0, 15, 15 >>
BHalf == << 0, 0, 15, 7 >>
BWide == << -8, -8, 23, 23 >>
\* IoU 15/16 and 1/16 with the ground truth B16.
BNear == << 0, 0, 15, 14 >>
BFar == << 0, 0, 3, 3 >>

AnchorTemplates ==
    { Arr(<< B16 >>), Arr(<< B16, BHalf >>), Arr(<< B16, BWide >>),
      Arr(<< BWide >>) }

GtPool == { << 0, 0, 15, 15, 1 >>, << 0, 0, 31, 15, 1 >>,
            << 0, 0, 31, 31, 2 >>, << 0, 16, 15, 23, 1 >> }

GtSets == UNION { [1..m -> GtPool] : m \in 0..MaxGt }

G16 == Arr(<< << 0, 0, 15, 15, 1 >> >>)

ImInfos == { << 8, 8 >>, << 16, 32 >>, << 32, 32 >> }

ImLarge == << 16 * (MaxH + 1), 16 * (MaxW + 1) >>

\* Templates that give the sampler more anchors than its quotas on one
\* cell with the ground truth B16: one best anchor B16, positives BNear,
\* negatives BFar.
\* NumFg + MaxExcess positives and BatchSize - NumFg negatives.
FgTemplate ==
    [a \in 0..(BatchSize + MaxExcess - 1) |->
        IF a = 0 THEN B16 ELSE IF a < NumFg + MaxExcess THEN BNear ELSE BFar]

\* NumFg positives and BatchSize - NumFg + MaxExcess negatives.
BgTemplate ==
    [a \in 0..(BatchSize + MaxExcess - 1) |->
        IF a = 0 THEN B16 ELSE IF a < NumFg THEN BNear ELSE BFar]

\* NumFg + MaxExcess positives.
SharedTemplate ==
    [a \in 0..(NumFg + MaxExcess - 1) |-> IF a = 0 THEN B16 ELSE BNear]

Threads == { 1, 2 }

InitInputs ==
    /\ height \in 1..MaxH
    /\ width \in 1..MaxW
    /\ gt_boxes \in { Arr(g) : g \in GtSets }
    /\ anchors0 \in AnchorTemplates

InitLocals ==
    /\ err = "none"
    /\ inds_inside = Unassigned
    /\ overlaps = Unassigned
    /\ argmax_overlaps = Unassigned
    /\ max_overlaps = Unassigned
    /\ gt_argmax_overlaps = Unassigned
    /\ labels = Unassigned
    /\ fg_inds = Unassigned
    /\ bg_inds = Unassigned
    /\ bbox_targets = Unassigned
    /\ bbox_inside_weights = Unassigned
    /\ bbox_outside_weights = Unassigned
    /\ out = Unassigned

InitThreads ==
    /\ rng_pos = 0
    /\ rng_stream = {}
    /\ tpc = [p \in Threads |-> "idle"]
    /\ tlabels = [p \in Threads |-> Unassigned]

Init ==
    /\ InitInputs
    /\ InitLocals
    /\ InitThreads
    /\ pc = "call"
    /\ all_anchors = Unassigned

----------------------------------------------------------------------------
\* One call of _anchor_target_layer_np.
NumAnchors == Len0(anchors0)
TotalAnchors == height * width * NumAnchors
NumGt == Len0(gt_boxes)

\* Lines 97-132: the grid is built, then the mask of the inside anchors
\* reads the unbound name im_info and the call ends with NameError.
BuildGrid ==
    /\ pc = "call"
    /\ all_anchors' = AllAnchors(anchors0, height, width)
    /\ pc' = "raised"
    /\ err' = "NameError:130"
    /\ UNCHANGED << inputs, locals, threads >>

Next == BuildGrid

Spec == Init /\ [][Next]_vars

----------------------------------------------------------------------------
\* Lines 135-203, from the grid and an index array of inside anchors.

\* The grid is built; inds_inside is what line 127 gives for an image of
\* one of the sizes ImInfos, or of a size that holds the whole grid.
InitBody ==
    /\ \/ /\ InitInputs
          /\ all_anchors = AllAnchors(anchors0, height, width)
          /\ inds_inside \in { InsideInds(all_anchors, info) : info \in ImInfos }
       \/ /\ height = 1
          /\ width = 1
          /\ gt_boxes = G16
          /\ anchors0 \in { FgTemplate, BgTemplate }
          /\ all_anchors = AllAnchors(anchors0, height, width)
          /\ inds_inside = InsideInds(all_anchors, ImLarge)
    /\ pc = "anchors"
    /\ err = "none"
    /\ overlaps = Unassigned
    /\ argmax_overlaps = Unassigned
    /\ max_overlaps = Unassigned
    /\ gt_argmax_overlaps = Unassigned
    /\ labels = Unassigned
    /\ fg_inds = Unassigned
    /\ bg_inds = Unassigned
    /\ bbox_targets = Unassigned
    /\ bbox_inside_weights = Unassigned
    /\ bbox_outside_weights = Unassigned
    /\ out = Unassigned
    /\ InitThreads

\* Lines 135-150.  The label buffer is filled with -1 (lines 137-138) before
\* the overlaps are computed.  argmax over an axis of length 0 raises
\* ValueError: line 145 when there is no ground truth, line 147 when no
\* anchor is inside.
Match ==
    /\ pc = "anchors"
    /\ labels' = FillLabels(Len0(inds_inside))
    /\ overlaps' = BboxOverlaps(Gather(all_anchors, inds_inside), gt_boxes)
    /\ IF NumGt = 0
       THEN /\ pc' = "raised"
            /\ err' = "ValueError:145"
            /\ UNCHANGED << argmax_overlaps, max_overlaps, gt_argmax_overlaps >>
       ELSE /\ argmax_overlaps' = ArgMaxAxis1(overlaps')
            /\ max_overlaps' =
                   [i \in DOMAIN overlaps' |-> overlaps'[i][argmax_overlaps'[i]]]
            /\ IF Len0(inds_inside) = 0
               THEN /\ pc' = "raised"
                    /\ err' = "ValueError:147"
                    /\ UNCHANGED gt_argmax_overlaps
               ELSE /\ gt_argmax_overlaps' = GtArgmaxOverlaps(overlaps', NumGt)
                    /\ pc' = "labels"
                    /\ UNCHANGED err
    /\ UNCHANGED << inputs, threads, all_anchors, inds_inside, fg_inds,
                    bg_inds, bbox_targets, bbox_inside_weights,
                    bbox_outside_weights, out >>

\* Lines 152-164.
Label ==
    /\ pc = "labels"
    /\ labels' = AssignLabels(labels, max_overlaps,
                              gt_argmax_overlaps, ClobberPositives)
    /\ pc' = "subsample_fg"
    /\ UNCHANGED << inputs, threads, err, all_anchors, inds_inside, overlaps,
                    argmax_overlaps, max_overlaps, gt_argmax_overlaps, fg_inds,
                    bg_inds, bbox_targets, bbox_inside_weights,
                    bbox_outside_weights, out >>

\* Lines 166-172.
SubsampleFg ==
    /\ pc = "subsample_fg"
    /\ fg_inds' = IndsWhere(labels, 1)
    /\ IF Len0(fg_inds') > NumFg
       THEN \E D \in Choices(fg_inds', Len0(fg_inds') - NumFg) :
                labels' = Disable(labels, D)
       ELSE UNCHANGED labels
    /\ pc' = "subsample_bg"
    /\ UNCHANGED << inputs, threads, err, all_anchors, inds_inside, overlaps,
                    argmax_overlaps, max_overlaps, gt_argmax_overlaps, bg_inds,
                    bbox_targets, bbox_inside_weights, bbox_outside_weights,
                    out >>

\* Lines 174-180.
SubsampleBg ==
    /\ pc = "subsample_bg"
    /\ bg_inds' = IndsWhere(labels, 0)
    /\ IF Len0(bg_inds') > NumBg(labels)
       THEN \E D \in Choices(bg_inds', Len0(bg_inds') - NumBg(labels)) :
                labels' = Disable(labels, D)
       ELSE UNCHANGED labels
    /\ pc' = "targets"
    /\ UNCHANGED << inputs, threads, err, all_anchors, inds_inside, overlaps,
                    argmax_overlaps, max_overlaps, gt_argmax_overlaps, fg_inds,
                    bbox_targets, bbox_inside_weights, bbox_outside_weights,
                    out >>

\* Lines 182-201.
Encode ==
    /\ pc = "targets"
    /\ bbox_targets' = Targets(Gather(all_anchors, inds_inside), gt_boxes,
                               argmax_overlaps)
    /\ bbox_inside_weights' = InsideWeights(labels)
    /\ bbox_outside_weights' = OutsideWeights(labels)
    /\ pc' = "unmap"
    /\ UNCHANGED << inputs, threads, err, all_anchors, inds_inside, overlaps,
                    argmax_overlaps, max_overlaps, gt_argmax_overlaps, labels,
                    fg_inds, bg_inds, out >>

\* Line 203: the bare name _unmap is not bound; NameError.
UnmapAll ==
    /\ pc = "unmap"
    /\ pc' = "raised"
    /\ err' = "NameError:203"
    /\ UNCHANGED << inputs, threads, all_anchors, locals >>

NextBody ==
    \/ Match
    \/ Label
    \/ SubsampleFg
    \/ SubsampleBg
    \/ Encode
    \/ UnmapAll

SpecBody == InitBody /\ [][NextBody]_vars

----------------------------------------------------------------------------
\* Lines 212-231, from four full-grid arrays of H*W*A rows.

\* A label array with 1 at position p, 0 at position q and -1 elsewhere.
Marked(n, p, q) ==
    [i \in 0..(n - 1) |-> IF i = p THEN 1 ELSE IF i = q THEN 0 ELSE -1]

\* A target array whose elements differ at every position and component.
Numbered(n) == [i \in 0..(n - 1) |-> [c \in 1..4 |-> Rat(4 * i + c, 1)]]

InitLayout ==
    /\ height \in 1..MaxH
    /\ width \in 1..MaxW
    /\ gt_boxes = G16
    /\ anchors0 \in AnchorTemplates
    /\ all_anchors = AllAnchors(anchors0, height, width)
    /\ inds_inside = InsideInds(all_anchors, ImLarge)
    /\ labels \in { Marked(TotalAnchors, p, q) :
                        p, q \in 0..(TotalAnchors - 1) }
    /\ bbox_targets = Numbered(TotalAnchors)
    /\ bbox_inside_weights = InsideWeights(labels)
    /\ bbox_outside_weights = OutsideWeights(labels)
    /\ pc = "reshape"
    /\ err = "none"
    /\ overlaps = Unassigned
    /\ argmax_overlaps = Unassigned
    /\ max_overlaps = Unassigned
    /\ gt_argmax_overlaps = Unassigned
    /\ fg_inds = Unassigned
    /\ bg_inds = Unassigned
    /\ out = Unassigned
    /\ InitThreads

\* Lines 212-231.
Layout ==
    /\ pc = "reshape"
    /\ out' = [ labels |-> LayoutLabels(labels, height, width, NumAnchors),
                bbox_targets |->
                    LayoutBoxes(bbox_targets, height, width, NumAnchors),
                bbox_inside_weights |->
                    LayoutBoxes(bbox_inside_weights, height, width, NumAnchors),
                bbox_outside_weights |->
                    LayoutBoxes(bbox_outside_weights, height, width, NumAnchors) ]
    /\ pc' = "done"
    /\ UNCHANGED << inputs, threads, err, all_anchors, inds_inside, overlaps,
                    argmax_overlaps, max_overlaps, gt_argmax_overlaps, labels,
                    fg_inds, bg_inds, bbox_targets, bbox_inside_weights,
                    bbox_outside_weights >>

NextLayout == Layout

SpecLayout == InitLayout /\ [][NextLayout]_vars

----------------------------------------------------------------------------
\* Lines 166-180 run by two threads on the same inputs.  np.random.choice
\* (lines 170 and 178) draws from the one generator of the numpy module.
\* What the generator returns is a function of the seed, of the number of
\* draws made since it was seeded, and of the arguments of the draw; a draw
\* advances it.  rng_stream records that function as far as draws have
\* disclosed it.

\* The labels of lines 137-164 on the inputs.
LabelsAt166 ==
    LET ov == BboxOverlaps(Gather(all_anchors, inds_inside), gt_boxes)
        am == ArgMaxAxis1(ov)
        mx == [i \in DOMAIN ov |-> ov[i][am[i]]]
    IN  AssignLabels(FillLabels(Len0(inds_inside)), mx, GtArgmaxOverlaps(ov, NumGt),
                     ClobberPositives)

\* The draws np.random.choice(inds, size=k, replace=False) can return at
\* position pos of the stream: the one recorded, or any if none is.
Drawn(pos, inds, k) ==
    LET known == { r \in rng_stream : r.pos = pos /\ r.inds = inds /\ r.k = k }
    IN  IF known # {} THEN { r.picked : r \in known } ELSE Choices(inds, k)

Record(pos, inds, k, D) ==
    rng_stream \cup { [pos |-> pos, inds |-> inds, k |-> k, picked |-> D] }

InitShared ==
    /\ \/ /\ height \in 1..MaxH
          /\ width \in 1..MaxW
          /\ gt_boxes \in { Arr(g) : g \in GtSets \ { << >> } }
          /\ anchors0 = Arr(<< B16 >>)
       \/ /\ height = 1
          /\ width = 1
          /\ gt_boxes = G16
          /\ anchors0 = SharedTemplate
    /\ all_anchors = AllAnchors(anchors0, height, width)
    /\ inds_inside = InsideInds(all_anchors, ImLarge)
    /\ pc = "call"
    /\ err = "none"
    /\ overlaps = Unassigned
    /\ argmax_overlaps = Unassigned
    /\ max_overlaps = Unassigned
    /\ gt_argmax_overlaps = Unassigned
    /\ labels = Unassigned
    /\ fg_inds = Unassigned
    /\ bg_inds = Unassigned
    /\ bbox_targets = Unassigned
    /\ bbox_inside_weights = Unassigned
    /\ bbox_outside_weights = Unassigned
    /\ out = Unassigned
    /\ InitThreads

\* The thread's caller seeds the generator, np.random.seed(seed), and the
\* thread reaches line 166.
TStart(p) ==
    /\ tpc[p] = "idle"
    /\ rng_pos' = 0
    /\ tlabels' = [tlabels EXCEPT ![p] = LabelsAt166]
    /\ tpc' = [tpc EXCEPT ![p] = "subsample_fg"]
    /\ UNCHANGED << inputs, locals, pc, err, all_anchors, rng_stream >>

\* Lines 166-172.
TSubsampleFg(p) ==
    /\ tpc[p] = "subsample_fg"
    /\ LET fg == IndsWhere(tlabels[p], 1)
           k == Len0(fg) - NumFg
       IN  IF k > 0
           THEN \E D \in Drawn(rng_pos, fg, k) :
                    /\ tlabels' = [tlabels EXCEPT ![p] = Disable(@, D)]
                    /\ rng_stream' = Record(rng_pos, fg, k, D)
                    /\ rng_pos' = rng_pos + 1
           ELSE UNCHANGED << tlabels, rng_stream, rng_pos >>
    /\ tpc' = [tpc EXCEPT ![p] = "subsample_bg"]
    /\ UNCHANGED << inputs, locals, pc, err, all_anchors >>

\* Lines 174-180.
TSubsampleBg(p) ==
    /\ tpc[p] = "subsample_bg"
    /\ LET bg == IndsWhere(tlabels[p], 0)
           k == Len0(bg) - NumBg(tlabels[p])
       IN  IF k > 0
           THEN \E D \in Drawn(rng_pos, bg, k) :
                    /\ tlabels' = [tlabels EXCEPT ![p] = Disable(@, D)]
                    /\ rng_stream' = Record(rng_pos, bg, k, D)
                    /\ rng_pos' = rng_pos + 1
           ELSE UNCHANGED << tlabels, rng_stream, rng_pos >>
    /\ tpc' = [tpc EXCEPT ![p] = "sampled"]
    /\ UNCHANGED << inputs, locals, pc, err, all_anchors >>

NextShared == \E p \in Threads : TStart(p) \/ TSubsampleFg(p) \/ TSubsampleBg(p)

SpecShared == InitShared /\ [][NextShared]_vars

----------------------------------------------------------------------------
\* Properties.  They are stated on the overlap matrix and the arrays held,
\* not through the operators that computed them.  pc names the statement
\* reached: "call", "anchors" (line 135), "labels" (152), "subsample_fg"
\* (166), "subsample_bg" (174), "targets" (182), "unmap" (203), "reshape"
\* (212), "done" (the four tensors returned), or "raised".

Fraction(n, d) == Rat(n, d)

ZeroRow == Row4(Fraction(0, 1))

\* The anchors whose IoU with ground truth j is the maximum of column j.
BestOf(j) ==
    LET top == CHOOSE i \in DOMAIN overlaps :
                   \A k \in DOMAIN overlaps : FracGe(overlaps[i][j], overlaps[k][j])
    IN  { i \in DOMAIN overlaps : FracEq(overlaps[i][j], overlaps[top][j]) }

InBest(i) ==
    \E j \in DOMAIN gt_boxes :
        \A k \in DOMAIN overlaps : FracGe(overlaps[i][j], overlaps[k][j])

\* max_overlap[i] < negative_overlap, max_overlap[i] >= positive_overlap
BelowNeg(i) == \A j \in DOMAIN gt_boxes : FracLt(overlaps[i][j], NegativeOverlap)
AbovePos(i) == \E j \in DOMAIN gt_boxes : FracGe(overlaps[i][j], PositiveOverlap)

FgQuota == (ForegroundFraction[1] * BatchSize) \div ForegroundFraction[2]

\* Lines 166-180 have run.
Sampled == pc \in { "targets", "unmap" } \/ err = "NameError:203"

\* Lines 182-201 have run.
Weighted == pc = "unmap" \/ err = "NameError:203"

\* The inside position of full-grid position q, when it has one.
InsidePos(q) == { k \in DOMAIN inds_inside : inds_inside[k] = q }

\* C1: whatever the sampler draws, after lines 166-180 at most
\* floor(foreground_fraction * batch_size) anchors have label 1, at most
\* batch_size have label 0 or 1, and the negatives kept are the negatives
\* found, cut to batch_size minus the positives left after the positive
\* subsampling.
C1_BatchQuota ==
    Sampled =>
        /\ Count(labels, 1) <= FgQuota
        /\ Count(labels, 0) + Count(labels, 1) <= BatchSize
        /\ Count(labels, 0) = Min2(Len0(bg_inds), BatchSize - Count(labels, 1))

\* The positive subsampling acted, and more negatives are kept than the
\* count of positives before subsampling would leave room for.
C1_Witness ==
    /\ Sampled
    /\ Len0(fg_inds) > Count(labels, 1)
    /\ Count(labels, 0) > BatchSize - Len0(fg_inds)
    /\ Count(labels, 0) + Count(labels, 1) = BatchSize

PolicyLabel(i, clobber) ==
    IF ~clobber
    THEN IF InBest(i) \/ AbovePos(i) THEN 1
         ELSE IF BelowNeg(i) THEN 0 ELSE -1
    ELSE IF BelowNeg(i) THEN 0
         ELSE IF InBest(i) \/ AbovePos(i) THEN 1 ELSE -1

\* C3: before subsampling the label of inside anchor i is, without
\* clobbering, 1 if i ties a column maximum or reaches positive_overlap,
\* else 0 if below negative_overlap, else -1; with clobbering, 0 if below
\* negative_overlap, else 1 if i ties a column maximum or reaches
\* positive_overlap, else -1.  The labels held are those of the mode
\* __init__ sets; the passes of lines 152-164 are compared in both modes.
C3_LabelPolicy ==
    pc = "subsample_fg" =>
        /\ \A i \in DOMAIN labels : labels[i] = PolicyLabel(i, ClobberPositives)
        /\ \A clobber \in BOOLEAN :
               LET lab == AssignLabels(FillLabels(Len0(inds_inside)), max_overlaps,
                                       gt_argmax_overlaps, clobber)
               IN  \A i \in DOMAIN lab : lab[i] = PolicyLabel(i, clobber)

\* Two anchors tie the maximum of a column below negative_overlap and are
\* both positive, next to a background anchor and an ignored one.
C3_Witness ==
    /\ pc = "subsample_fg"
    /\ \E j \in DOMAIN gt_boxes : \E i, k \in BestOf(j) :
           i # k /\ BelowNeg(i) /\ labels[i] = 1 /\ labels[k] = 1
    /\ \E i \in DOMAIN labels : labels[i] = 0
    /\ \E i \in DOMAIN labels : labels[i] = -1

\* C4: a call without ground truth does not raise and returns labels that
\* are all 0 or -1.
C4_NoGroundTruthReturns ==
    NumGt = 0 =>
        /\ pc # "raised"
        /\ pc = "done" => \A f \in DOMAIN out.labels.data :
                              out.labels.data[f] \in { 0, -1 }

\* No anchor of the grid is inside an image of any size: each violates
\* x1 >= -border or y1 >= -border.
NoAnchorInside ==
    /\ pc # "call"
    /\ \A q \in DOMAIN all_anchors :
           \/ all_anchors[q][1] < -AllowedBorder
           \/ all_anchors[q][2] < -AllowedBorder

\* C5: a call of which no anchor is inside the image does not raise and
\* returns labels -1 and zero targets and weights everywhere.
C5_NoInsideAnchorReturns ==
    NoAnchorInside =>
        /\ pc # "raised"
        /\ pc = "done" =>
            /\ \A f \in DOMAIN out.labels.data : out.labels.data[f] = -1
            /\ \A f \in DOMAIN out.bbox_targets.data :
                   /\ out.bbox_targets.data[f] = Fraction(0, 1)
                   /\ out.bbox_inside_weights.data[f] = Fraction(0, 1)
                   /\ out.bbox_outside_weights.data[f] = Fraction(0, 1)

\* C6: every call gives each of the H*W*A positions a label in {-1, 0, 1};
\* a position that is no inside anchor has label -1 and zero target and
\* weights, an inside position the values computed for that anchor.
C6_FullGrid ==
    [][ /\ pc' # "raised"
        /\ (pc = "unmap" /\ pc' = "done") =>
              /\ DOMAIN labels' = 0..(TotalAnchors - 1)
              /\ \A q \in DOMAIN labels' :
                    /\ labels'[q] \in { -1, 0, 1 }
                    /\ IF InsidePos(q) # {}
                       THEN \A k \in InsidePos(q) :
                                /\ labels'[q] = labels[k]
                                /\ bbox_targets'[q] = bbox_targets[k]
                                /\ bbox_inside_weights'[q] = bbox_inside_weights[k]
                                /\ bbox_outside_weights'[q] = bbox_outside_weights[k]
                       ELSE /\ labels'[q] = -1
                            /\ bbox_targets'[q] = ZeroRow
                            /\ bbox_inside_weights'[q] = ZeroRow
                            /\ bbox_outside_weights'[q] = ZeroRow ]_vars

\* C7: after lines 185-201, with n = (number of inside anchors of final
\* label >= 0) + 1, every inside anchor of final label 0 or 1 has
\* outside-weight 1/n on its four components and every anchor of final
\* label -1 has outside-weight 0; the inside-weight is the configured
\* vector where the final label is 1 and 0 elsewhere.
C7_Weights ==
    Weighted =>
        LET n == Cardinality({ i \in DOMAIN labels : labels[i] >= 0 }) + 1
        IN  \A i \in DOMAIN labels : \A c \in 1..4 :
                /\ bbox_outside_weights[i][c] =
                       IF labels[i] \in { 0, 1 }
                       THEN [k |-> "rat", n |-> 1, d |-> n]
                       ELSE [k |-> "rat", n |-> 0, d |-> 1]
                /\ bbox_inside_weights[i][c] =
                       IF labels[i] = 1
                       THEN [k |-> "rat", n |-> BboxInsideWeights[c], d |-> 1]
                       ELSE [k |-> "rat", n |-> 0, d |-> 1]

\* The weights are set after a subsampling that demoted anchors, with a
\* positive, a negative and an ignored anchor present.
C7_Witness ==
    /\ pc = "unmap"
    /\ Len0(fg_inds) + Len0(bg_inds) >
           Cardinality({ i \in DOMAIN labels : labels[i] >= 0 })
    /\ \E i \in DOMAIN labels : labels[i] = 1
    /\ \E i \in DOMAIN labels : labels[i] = 0

Matched(i) ==
    CHOOSE j \in DOMAIN gt_boxes :
        /\ \A k \in DOMAIN gt_boxes : FracGe(overlaps[i][j], overlaps[i][k])
        /\ \A k \in DOMAIN gt_boxes : k < j => FracLt(overlaps[i][k], overlaps[i][j])

GridLayout ==
    \A row \in 0..(height - 1) : \A col \in 0..(width - 1) :
        \A a \in 0..(NumAnchors - 1) :
            all_anchors[(row * width + col) * NumAnchors + a] =
                << anchors0[a][1] + col * FeatStride,
                   anchors0[a][2] + row * FeatStride,
                   anchors0[a][3] + col * FeatStride,
                   anchors0[a][4] + row * FeatStride >>

\* C9: the grid is enumerated cell-major and template-minor, and lines
\* 212-231 put the label of cell (row, col), anchor a at [0, 0, a*H + row,
\* col] of the (1, 1, A*H, W) tensor and component c of its target and
\* weights at [0, 4*a + c, row, col] of the (1, 4*A, H, W) tensors.
C9_Layout ==
    /\ pc # "call" => GridLayout
    /\ pc = "done" =>
        LET H == height
            W == width
            A == NumAnchors
        IN  /\ out.labels.shape = << 1, 1, A * H, W >>
            /\ out.bbox_targets.shape = << 1, 4 * A, H, W >>
            /\ out.bbox_inside_weights.shape = << 1, 4 * A, H, W >>
            /\ out.bbox_outside_weights.shape = << 1, 4 * A, H, W >>
            /\ \A row \in 0..(H - 1) : \A col \in 0..(W - 1) : \A a \in 0..(A - 1) :
                   LET i == (row * W + col) * A + a
                   IN  /\ out.labels.data[(a * H + row) * W + col] = labels[i]
                       /\ \A c \in 0..3 :
                              LET f == ((4 * a + c) * H + row) * W + col
                              IN  /\ out.bbox_targets.data[f] = bbox_targets[i][c + 1]
                                  /\ out.bbox_inside_weights.data[f] =
                                         bbox_inside_weights[i][c + 1]
                                  /\ out.bbox_outside_weights.data[f] =
                                         bbox_outside_weights[i][c + 1]

\* The tensors are laid out for a 2 x 2 feature map with two templates, and
\* the three labels occur on the grid away from its first position.
C9_Witness ==
    /\ pc = "done"
    /\ height = 2 /\ width = 2 /\ NumAnchors = 2
    /\ labels[0] = -1
    /\ \A v \in { -1, 0, 1 } : \E q \in DOMAIN labels : labels[q] = v

=============================================================================
